---- MODULE Spec2Model ----
(***************************************************************************)
(* UM/LockFile.py: a lock held as a marker file.  Several processes each   *)
(* construct a LockFile on the same path and run                           *)
(*     with LockFile(path, timeout): <body>                                *)
(* Every file-system call of the class is one step, so that the calls of   *)
(* different processes interleave as they do on a shared file system.      *)
(* Time is counted in units of the poll interval (time.sleep(0.1)); a      *)
(* guard's timeout is held in the same unit.                               *)
(***************************************************************************)
EXTENDS Integers, Sequences, FiniteSets, TLC

\* ------------------------------------------------------------- bounds
\* The clock stops advancing at MaxTime.
MaxTime == 4
\* At most MaxFaults file-system calls fail for a reason other than
\* "file not found" in one behaviour.
MaxFaults == 1

\* The cooperating processes, and the timeouts their guards are built with.
Procs == {1, 2}
Timeouts == {2, 3}

\* os.getpid() of each process, and of a process outside the model that may
\* have left a marker behind.
Pid(p) == IF p = 1 THEN 7 ELSE 12
ForeignPid == 305

\* The modification times of a marker found at the start: written at the
\* start (clock 0), or stamped ahead of the clock.
InitMtimes == {0, 2}

\* time.sleep(0.1): one unit of the clock, of which a second has ten.
SleepInterval == 1
TicksPerSecond == 10

\* The defaults of LockFile.__init__: timeout in seconds, and wait_msg.
DefaultTimeout == 10
DefaultWaitMsg == "Waiting for lock file to disappear..."

\* The path every guard is built on, and a wait message a caller passes.
LockPath == "my_lock_file.lock"
CustomWaitMsg == "Waiting for my_lock_file.lock"

NewLockFileShort(path, args) ==
    [filename |-> path,
     wait_msg |-> IF args.wait_msg = <<>> THEN DefaultWaitMsg
                  ELSE args.wait_msg[1],
     timeout  |-> IF args.timeout = <<>> THEN TicksPerSecond
                  ELSE args.timeout[1]]

\* LockFile.__init__(filename, timeout = 10, wait_msg = ...): an argument is
\* <<v>> when the caller passes v and <<>> when it is left out.  A timeout
\* that is passed is in units of the clock; the default is in seconds.
NewLockFile(path, args) ==
    [filename |-> path,
     wait_msg |-> IF args.wait_msg = <<>> THEN DefaultWaitMsg
                  ELSE args.wait_msg[1],
     timeout  |-> IF args.timeout = <<>> THEN DefaultTimeout * TicksPerSecond
                  ELSE args.timeout[1]]

\* The calls of the constructor: with a timeout only, and in every shape.
TimeoutArgs == {[timeout |-> <<t>>, wait_msg |-> <<>>] : t \in Timeouts}
ConfigArgs ==
    {[timeout |-> <<>>, wait_msg |-> <<>>],
     [timeout |-> <<2>>, wait_msg |-> <<CustomWaitMsg>>]}

\* "%s" % os.getpid(): the decimal digits of n, most significant first.
RECURSIVE PidTextReversed(_)
PidTextReversed(n) ==
    IF n < 10 THEN <<n>> ELSE <<n % 10>> \o PidTextReversed(n \div 10)

RECURSIVE PidText(_)
PidText(n) == IF n < 10 THEN <<n>> ELSE Append(PidText(n \div 10), n % 10)

\* A file opened with "w" and not yet written: no content.
Empty == <<>>

\* lock_file.write on a file opened with "w": the text goes in at offset 0,
\* over what another writer of the same file may have put there since.
Overwrite(old, text) == text \o SubSeq(old, Len(text) + 1, Len(old))


VARIABLES
    clock,      \* time.time()
    exists,     \* whether the marker file is present at the path
    content,    \* its content (digits), Empty when absent or just truncated
    mtime,      \* its modification time, 0 when absent
    attached,   \* attached[p]: the file p has open is the one at the path
    pc,         \* where each process is
    now,        \* the local variable now of _waitLockFileDisappear
    wake,       \* the clock value at which p's time.sleep returns
    filename,   \* self._filename of p's guard
    timeout,    \* self._timeout of p's guard
    wait_msg,   \* self._wait_msg of p's guard
    outer,      \* the with statement in whose body p's is nested, 0 for none
    args,       \* the arguments p's guard was constructed with
    exc,        \* the error propagating out of p's with statement
    dlog,       \* messages p logged at "d" severity
    elog,       \* messages p logged at "e" severity
    sleeps,     \* times p's time.sleep has returned
    exits,      \* times p's __exit__ ran
    faults,     \* the calls of p that failed (other than file not found)
    seen,       \* <<age>> of the marker when p entered, <<>> when it was absent
    why,        \* what ended p's wait loop
    disturbed,  \* another process deleted or rewrote the marker since p
                \* entered, or since p opened it
    lastlog,    \* the last message p logged: <<severity, text, ...>>
    unlinked,   \* what p's os.remove did: <<"removed", content>>,
                \* <<"missing">> or <<"failed">>; <<>> before it
    steady      \* so far no creation failed, no hold lasted a timeout, no
                \* first poll sampled a clock at or before the marker's
                \* modification time, and no two acquires overlapped

vars == <<clock, exists, content, mtime, attached, pc, now, wake, filename,
          timeout, wait_msg, outer, args, exc, dlog, elog, sleeps, exits,
          faults, seen, why, disturbed, lastlog, unlinked, steady>>

\* What a guard remembers, and where its with statement stands.
cfgvars == <<filename, timeout, wait_msg, outer, args>>

fsvars == <<exists, content, mtime, attached>>
logvars == <<dlog, elog, sleeps, exits, lastlog>>
histvars == <<seen, why, disturbed>>

\* ------------------------------------------------------------ helpers
RECURSIVE SetSum(_, _)
SetSum(f, S) ==
    IF S = {} THEN 0
    ELSE LET x == CHOOSE y \in S : TRUE IN f[x] + SetSum(f, S \ {x})

NFaults == SetSum([p \in Procs |-> Cardinality(faults[p])], Procs)

\* The outcomes of one file-system call: it works, or fails for a reason
\* other than a missing file while the budget of failures lasts.
Outcomes == IF NFaults < MaxFaults THEN {"ok", "fail"} ELSE {"ok"}

\* The call `kind` of p ended with outcome o.
Record(p, kind, o) ==
    [faults EXCEPT ![p] = IF o = "fail" THEN @ \cup {kind} ELSE @]

\* p changed the marker under every other process.
Disturb(p) == [q \in Procs |-> IF q = p THEN disturbed[q] ELSE TRUE]

\* ---------------------------------------------------------------- Init
\* The guards are constructed from the calls in Args, in the processes given
\* by nesting (nesting[p] is the with statement around p's, 0 for none); the
\* marker is absent, or was left by a foreign process.
InitWith(Args, nesting) ==
    /\ \E a \in [Procs -> Args] :
         LET g == [p \in Procs |-> NewLockFile(LockPath, a[p])] IN
         /\ filename = [p \in Procs |-> g[p].filename]
         /\ timeout = [p \in Procs |-> g[p].timeout]
         /\ wait_msg = [p \in Procs |-> g[p].wait_msg]
         /\ args = a
    /\ outer = nesting
    /\ clock = 0
    /\ exists \in BOOLEAN
    /\ IF exists
         THEN /\ content = PidText(ForeignPid)
              /\ mtime \in InitMtimes
         ELSE /\ content = Empty
              /\ mtime = 0
    /\ attached = [p \in Procs |-> FALSE]
    /\ pc = [p \in Procs |-> "idle"]
    /\ now = [p \in Procs |-> 0]
    /\ wake = [p \in Procs |-> 0]
    /\ exc = [p \in Procs |-> "none"]
    /\ dlog = [p \in Procs |-> 0]
    /\ elog = [p \in Procs |-> 0]
    /\ sleeps = [p \in Procs |-> 0]
    /\ exits = [p \in Procs |-> 0]
    /\ faults = [p \in Procs |-> {}]
    /\ seen = [p \in Procs |-> <<>>]
    /\ why = [p \in Procs |-> "none"]
    /\ disturbed = [p \in Procs |-> FALSE]
    /\ lastlog = [p \in Procs |-> <<>>]
    /\ unlinked = [p \in Procs |-> <<>>]
    /\ steady = TRUE

\* Each with statement in a process of its own.
Init == InitWith(TimeoutArgs, [p \in Procs |-> 0])

\* ------------------------------------------------------------- actions
\* Time passes.
\* With the clock at t, a process is in its scope on a marker that some
\* guard's timeout makes stale.
HoldExpires(t) ==
    /\ exists
    /\ \E p \in Procs : pc[p] \in {"body", "remove"}
    /\ \E q \in Procs : t - mtime >= timeout[q]

Tick ==
    /\ clock < MaxTime
    /\ clock' = clock + 1
    /\ steady' = (steady /\ ~HoldExpires(clock + 1))
    /\ UNCHANGED <<fsvars, pc, now, wake, cfgvars, exc, logvars, faults,
                   histvars, unlinked>>

\* __enter__ calls _waitLockFileDisappear, which samples the clock.
Enter(p) ==
    /\ pc[p] = "idle"
    /\ outer[p] # 0 => pc[outer[p]] = "body"
    /\ now' = [now EXCEPT ![p] = clock]
    /\ pc' = [pc EXCEPT ![p] = "exists"]
    /\ seen' = [seen EXCEPT ![p] = IF exists THEN <<clock - mtime>> ELSE <<>>]
    /\ disturbed' = [disturbed EXCEPT ![p] = FALSE]
    /\ UNCHANGED <<clock, fsvars, wake, cfgvars, exc, logvars, faults, why,
                   unlinked, steady>>

NotStaleInclusive(p, m) == now[p] <= m + timeout[p]

NotStaleForgotten(p, m) == TRUE

NotStaleUnlessOwn(p, m) ==
    /\ now[p] < m + timeout[p]
    /\ content # PidText(Pid(IF outer[p] = 0 THEN p ELSE outer[p]))

NotStaleAtOnce(p, m) == now[p] < m + SleepInterval

\* The loop condition of _waitLockFileDisappear on a modification time m:
\* now < mtime + timeout, the first comparison.
NotStale(p, m) == now[p] < m + timeout[p]

NotFutureInclusive(p, m) == now[p] >= m

\* now > mtime, the second comparison.
NotFuture(p, m) == now[p] > m

PathExistsAlways(o) == TRUE

\* os.path.exists: False when the file is absent and when the stat fails.
PathExists(o) == exists /\ o = "ok"

\* os.path.getmtime: the modification time, or the error it raises.
Getmtime(o) ==
    IF o = "fail" THEN [err |-> "OSError", val |-> 0]
    ELSE IF ~exists THEN [err |-> "FileNotFoundError", val |-> 0]
    ELSE [err |-> "none", val |-> mtime]

CaughtNothing(err) == FALSE

\* except FileNotFoundError: pass
Caught(err) == err = "FileNotFoundError"

\* The wait loop of p ends for reason r; _createLockFile is next.
EndWait(p, r) ==
    /\ pc' = [pc EXCEPT ![p] = "open"]
    /\ why' = [why EXCEPT ![p] = r]
    /\ UNCHANGED <<exc, dlog, wake, lastlog, fsvars>>

\* An error the wait loop does not catch leaves __enter__: the with statement
\* runs neither the body nor __exit__.
RaiseOut(p, err) ==
    /\ pc' = [pc EXCEPT ![p] = "raised"]
    /\ exc' = [exc EXCEPT ![p] = err]
    /\ why' = [why EXCEPT ![p] = "error"]
    /\ UNCHANGED <<dlog, wake, lastlog, fsvars>>

IterateSilent(p) ==
    /\ wake' = [wake EXCEPT ![p] = clock + SleepInterval]
    /\ pc' = [pc EXCEPT ![p] = "sleep"]
    /\ UNCHANGED <<exc, why, dlog, lastlog, fsvars>>

IterateTouching(p) ==
    /\ dlog' = [dlog EXCEPT ![p] = @ + 1]
    /\ lastlog' = [lastlog EXCEPT ![p] = <<"d", wait_msg[p]>>]
    /\ wake' = [wake EXCEPT ![p] = clock + SleepInterval]
    /\ pc' = [pc EXCEPT ![p] = "sleep"]
    /\ mtime' = clock
    /\ UNCHANGED <<exc, why, exists, content, attached>>

\* The loop body: log the wait message at "d" and go to sleep.
Iterate(p) ==
    /\ dlog' = [dlog EXCEPT ![p] = @ + 1]
    /\ lastlog' = [lastlog EXCEPT ![p] = <<"d", wait_msg[p]>>]
    /\ wake' = [wake EXCEPT ![p] = clock + SleepInterval]
    /\ pc' = [pc EXCEPT ![p] = "sleep"]
    /\ UNCHANGED <<exc, why, fsvars>>

\* q is inside acquire: past its first existence check, its marker not yet
\* created.
InsideAcquire(q) ==
    \/ pc[q] \in {"getmtime1", "getmtime2", "sleep", "open", "write"}
    \/ pc[q] = "exists" /\ sleeps[q] > 0

\* p's first existence check comes while another process is inside acquire,
\* or with a clock sample that is not after the marker's modification time.
FirstPollUnsteady(p) ==
    /\ sleeps[p] = 0
    /\ \/ \E q \in Procs \ {p} : InsideAcquire(q)
       \/ exists /\ now[p] <= mtime

\* The loop condition, os.path.exists(self._filename).
WaitExists(p) ==
    /\ pc[p] = "exists"
    /\ \E o \in Outcomes :
         /\ faults' = Record(p, "exists", o)
         /\ IF PathExists(o)
              THEN /\ pc' = [pc EXCEPT ![p] = "getmtime1"]
                   /\ UNCHANGED <<exc, dlog, wake, why, lastlog>>
              ELSE EndWait(p, IF o = "ok" THEN "absent" ELSE "unreadable")
    /\ steady' = (steady /\ ~FirstPollUnsteady(p))
    /\ UNCHANGED <<clock, fsvars, now, cfgvars, elog, sleeps, exits, seen,
                   disturbed, unlinked>>

\* The loop condition, now < os.path.getmtime(self._filename) + self._timeout.
WaitMtime1(p) ==
    /\ pc[p] = "getmtime1"
    /\ \E o \in Outcomes :
         LET r == Getmtime(o) IN
         /\ faults' = Record(p, "getmtime", o)
         /\ IF r.err # "none"
              THEN IF Caught(r.err) THEN EndWait(p, "vanished")
                   ELSE RaiseOut(p, r.err)
              ELSE IF NotStale(p, r.val)
                     THEN /\ pc' = [pc EXCEPT ![p] = "getmtime2"]
                          /\ UNCHANGED <<exc, dlog, wake, why, lastlog>>
                     ELSE EndWait(p, "stale")
    /\ UNCHANGED <<clock, fsvars, now, cfgvars, elog, sleeps, exits, seen,
                   disturbed, unlinked, steady>>

\* The loop condition, now > os.path.getmtime(self._filename); when it holds
\* the loop body runs.
WaitMtime2(p) ==
    /\ pc[p] = "getmtime2"
    /\ \E o \in Outcomes :
         LET r == Getmtime(o) IN
         /\ faults' = Record(p, "getmtime", o)
         /\ IF r.err # "none"
              THEN IF Caught(r.err) THEN EndWait(p, "vanished")
                   ELSE RaiseOut(p, r.err)
              ELSE IF NotFuture(p, r.val) THEN Iterate(p)
                   ELSE EndWait(p, "notpast")
    /\ UNCHANGED <<clock, now, cfgvars, elog, sleeps, exits, seen, disturbed,
                   unlinked, steady>>

\* time.sleep(0.1) returns and the clock is sampled again.
WakeUp(p) ==
    /\ pc[p] = "sleep"
    /\ clock >= wake[p]
    /\ now' = [now EXCEPT ![p] = clock]
    /\ sleeps' = [sleeps EXCEPT ![p] = @ + 1]
    /\ wake' = [wake EXCEPT ![p] = 0]
    /\ pc' = [pc EXCEPT ![p] = "exists"]
    /\ UNCHANGED <<clock, fsvars, cfgvars, exc, dlog, elog, exits, faults,
                   histvars, lastlog, unlinked, steady>>

\* The process a with statement runs in: that of the statement around it.
ProcessOf(p) == IF outer[p] = 0 THEN p ELSE outer[p]

WrittenNothing(p) == Empty

\* "%s" % os.getpid(), the text p writes.
Written(p) == PidText(Pid(ProcessOf(p)))

LogCreateErrorSilent(p) == elog

\* The text of the two error messages.
CreateErrorMsg(p) == <<"e", "Could not create lock file", filename[p]>>
DeleteErrorMsg(p) == <<"e", "Could not delete lock file", filename[p]>>

\* except: Logger.log("e", "Could not create lock file ...")
LogCreateError(p) == [elog EXCEPT ![p] = @ + 1]

OpenFailsExclusive(o) == o = "fail" \/ exists

\* open(filename, "w") fails only when the file system refuses it: a marker
\* that is already there is truncated, whoever wrote it.
OpenFails(o) == o = "fail"

\* _createLockFile, open(filename, "w"): creates the file or truncates it.  A
\* failure is logged and __enter__ returns.
CreateOpen(p) ==
    /\ pc[p] = "open"
    /\ \E o \in Outcomes :
         /\ faults' = Record(p, "open", o)
         /\ IF OpenFails(o)
              THEN /\ elog' = LogCreateError(p)
                   /\ lastlog' = [lastlog EXCEPT ![p] = CreateErrorMsg(p)]
                   /\ pc' = [pc EXCEPT ![p] = "body"]
                   /\ steady' = FALSE
                   /\ UNCHANGED <<fsvars, disturbed>>
              ELSE /\ exists' = TRUE
                   /\ content' = Empty
                   /\ mtime' = clock
                   /\ attached' = [attached EXCEPT ![p] = TRUE]
                   /\ disturbed' = [Disturb(p) EXCEPT ![p] = FALSE]
                   /\ pc' = [pc EXCEPT ![p] = "write"]
                   /\ UNCHANGED <<elog, lastlog, steady>>
    /\ UNCHANGED <<clock, now, wake, cfgvars, exc, dlog, sleeps, exits, seen,
                   why, unlinked>>

\* _createLockFile, lock_file.write and the close that flushes it.  The text
\* goes to the file p opened, which is no longer at the path when another
\* process removed it in between.  Then __enter__ returns.
CreateWrite(p) ==
    /\ pc[p] = "write"
    /\ \E o \in Outcomes :
         /\ faults' = Record(p, "write", o)
         /\ IF o = "fail"
              THEN /\ elog' = LogCreateError(p)
                   /\ lastlog' = [lastlog EXCEPT ![p] = CreateErrorMsg(p)]
                   /\ steady' = FALSE
                   /\ UNCHANGED <<content, mtime, disturbed>>
              ELSE /\ IF attached[p]
                        THEN /\ content' = Overwrite(content, Written(p))
                             /\ mtime' = clock
                             /\ disturbed' = Disturb(p)
                        ELSE UNCHANGED <<content, mtime, disturbed>>
                   /\ UNCHANGED <<elog, lastlog, steady>>
    /\ attached' = [attached EXCEPT ![p] = FALSE]
    /\ pc' = [pc EXCEPT ![p] = "body"]
    /\ UNCHANGED <<clock, exists, now, wake, cfgvars, exc, dlog, sleeps,
                   exits, seen, why, unlinked>>

\* The guarded body ends, normally or by raising; either way the with
\* statement calls __exit__.
Body(p) ==
    /\ pc[p] = "body"
    /\ \A q \in Procs : outer[q] = p => pc[q] \in {"idle", "done", "raised"}
    /\ \E e \in {"none", "BodyError"} : exc' = [exc EXCEPT ![p] = e]
    /\ pc' = [pc EXCEPT ![p] = "remove"]
    /\ now' = [now EXCEPT ![p] = 0]
    /\ seen' = [seen EXCEPT ![p] = <<>>]
    /\ why' = [why EXCEPT ![p] = "none"]
    /\ disturbed' = [disturbed EXCEPT ![p] = FALSE]
    /\ UNCHANGED <<clock, fsvars, wake, cfgvars, logvars, faults, unlinked,
                   steady>>

\* except: Logger.log("e", "Could not delete lock file ...")
LogDeleteError(p) == [elog EXCEPT ![p] = @ + 1]

AfterExitSuppressed(p) == "done"

\* __exit__ returns None: an error of the body goes on to the caller.
AfterExit(p) == IF exc[p] = "none" THEN "done" ELSE "raised"

\* __exit__ calls _deleteLockFile, os.remove.  A missing file is passed over,
\* any other failure is logged.
RemovesOwn(p) == exists /\ content = Written(p)

\* os.remove(self._filename) unlinks the file at the path, whatever it holds.
Removes(p) == exists

NotFoundLogged(p) ==
    /\ elog' = LogDeleteError(p)
    /\ lastlog' = [lastlog EXCEPT ![p] = DeleteErrorMsg(p)]

\* except FileNotFoundError: pass
NotFound(p) == UNCHANGED <<elog, lastlog>>

Exit(p) ==
    /\ pc[p] = "remove"
    /\ \E o \in Outcomes :
         /\ faults' = Record(p, "remove", o)
         /\ IF o = "fail"
              THEN /\ elog' = LogDeleteError(p)
                   /\ lastlog' = [lastlog EXCEPT ![p] = DeleteErrorMsg(p)]
                   /\ unlinked' = [unlinked EXCEPT ![p] = <<"failed">>]
                   /\ UNCHANGED <<fsvars, disturbed>>
              ELSE IF ~Removes(p)
                     THEN /\ NotFound(p)
                          /\ unlinked' = [unlinked EXCEPT ![p] = <<"missing">>]
                          /\ UNCHANGED <<fsvars, disturbed>>
                     ELSE /\ exists' = FALSE
                          /\ content' = Empty
                          /\ mtime' = 0
                          /\ attached' = [q \in Procs |-> FALSE]
                          /\ disturbed' = Disturb(p)
                          /\ unlinked' = [unlinked EXCEPT
                                             ![p] = <<"removed", content>>]
                          /\ UNCHANGED <<elog, lastlog>>
    /\ exits' = [exits EXCEPT ![p] = @ + 1]
    /\ pc' = [pc EXCEPT ![p] = AfterExit(p)]
    /\ UNCHANGED <<clock, now, wake, cfgvars, exc, dlog, sleeps, seen, why,
                   steady>>

Next ==
    \/ Tick
    \/ \E p \in Procs : Enter(p)
    \/ \E p \in Procs : WaitExists(p)
    \/ \E p \in Procs : WaitMtime1(p)
    \/ \E p \in Procs : WaitMtime2(p)
    \/ \E p \in Procs : WakeUp(p)
    \/ \E p \in Procs : CreateOpen(p)
    \/ \E p \in Procs : CreateWrite(p)
    \/ \E p \in Procs : Body(p)
    \/ \E p \in Procs : Exit(p)

Spec == Init /\ [][Next]_vars

\* The same program with the guards constructed in every shape.
InitConfig == InitWith(ConfigArgs, [p \in Procs |-> 0])
SpecConfig == InitConfig /\ [][Next]_vars

\* The same program with the second with statement written inside the body
\* of the first, in the same process, on the same path.
Nesting == [p \in Procs |-> IF p = 1 THEN 0 ELSE 1]
InitNested == InitWith(TimeoutArgs, Nesting)
SpecNested == InitNested /\ [][Next]_vars

\* ---------------------------------------------------- unbounded runs
\* The same program run for ever: time is kept relative to the present (the
\* clock stays at 0 and a tick moves every recorded time one interval into
\* the past), and a process whose with statement has ended may start another.
MaxLag == 1
MaxCount == 1
LiveArgs == {[timeout |-> <<2>>, wait_msg |-> <<>>]}
MaxTimeout == CHOOSE t \in Timeouts : \A u \in Timeouts : u <= t
Horizon == MaxLag + MaxTimeout
Later(a, b) == IF a >= b THEN a ELSE b

InitLive == InitWith(LiveArgs, [p \in Procs |-> 0])

Polling(p) == pc[p] \in {"exists", "getmtime1", "getmtime2"}

\* time.time() advances by one interval.  A process between its clock sample
\* and the comparisons that use it is scheduled within MaxLag intervals, and
\* a hold ends before the marker reaches the timeout of any guard; a
\* modification time further back than Horizon compares like Horizon.
TickLive ==
    /\ \A p \in Procs : Polling(p) => now[p] > -MaxLag
    /\ ~HoldExpires(clock + 1)
    /\ mtime' = IF exists THEN Later(mtime - 1, -Horizon) ELSE mtime
    /\ now' = [p \in Procs |-> Later(now[p] - 1, -MaxLag)]
    /\ wake' = [p \in Procs |-> Later(wake[p] - 1, 0)]
    /\ UNCHANGED <<clock, exists, content, attached, pc, cfgvars, exc,
                   logvars, faults, histvars, unlinked, steady>>

\* The with statement of p has ended; p comes to another one, on the same
\* guard.  What was recorded about the one that ended is dropped.
Restart(p) ==
    /\ pc[p] \in {"done", "raised"}
    /\ pc' = [pc EXCEPT ![p] = "idle"]
    /\ exc' = [exc EXCEPT ![p] = "none"]
    /\ now' = [now EXCEPT ![p] = 0]
    /\ wake' = [wake EXCEPT ![p] = 0]
    /\ dlog' = [dlog EXCEPT ![p] = 0]
    /\ elog' = [elog EXCEPT ![p] = 0]
    /\ sleeps' = [sleeps EXCEPT ![p] = 0]
    /\ exits' = [exits EXCEPT ![p] = 0]
    /\ lastlog' = [lastlog EXCEPT ![p] = <<>>]
    /\ unlinked' = [unlinked EXCEPT ![p] = <<>>]
    /\ seen' = [seen EXCEPT ![p] = <<>>]
    /\ why' = [why EXCEPT ![p] = "none"]
    /\ disturbed' = [disturbed EXCEPT ![p] = FALSE]
    /\ UNCHANGED <<clock, fsvars, cfgvars, faults, steady>>

\* The count of p's iterations is dropped when it reaches MaxCount.
Forget(p) ==
    /\ dlog[p] >= MaxCount /\ pc[p] # "sleep"
    /\ dlog' = [dlog EXCEPT ![p] = 0]
    /\ sleeps' = [sleeps EXCEPT ![p] = 0]
    /\ UNCHANGED <<clock, fsvars, pc, now, wake, cfgvars, exc, elog, exits,
                   lastlog, faults, histvars, unlinked, steady>>

WaitMtime2Live(p) == dlog[p] < MaxCount /\ WaitMtime2(p)

\* The steps of p's code once its with statement has begun.
ProgramStep(p) ==
    \/ WaitExists(p) \/ WaitMtime1(p) \/ WaitMtime2Live(p) \/ WakeUp(p)
    \/ CreateOpen(p) \/ CreateWrite(p) \/ Body(p) \/ Exit(p) \/ Forget(p)

\* A step of p's code in which no file-system call fails.
LiveStep(p) == ProgramStep(p) /\ faults' = faults

NextLive ==
    \/ TickLive
    \/ \E p \in Procs : Enter(p)
    \/ \E p \in Procs : LiveStep(p)
    \/ \E p \in Procs : Restart(p)

\* Time advances, and the code of every process that is in a with statement
\* is scheduled; whether a process begins another with statement is up to it.
SpecLive ==
    /\ InitLive /\ [][NextLive]_vars
    /\ SF_vars(TickLive)
    /\ \A p \in Procs : WF_vars(LiveStep(p))

\* ------------------------------------------------------------ claims
\* The text of each process's identifier, as the claims expect it on disk.
IdText(p) == IF p = 1 THEN <<7>> ELSE <<1, 2>>

Others(p) == Procs \ {p}

\* No other process has started.
Alone(p) == \A q \in Others(p) : pc[q] = "idle"

\* p's step is taken and none of its calls failed in it.
Steps(p) == pc'[p] # pc[p] /\ faults'[p] = faults[p]

\* C1: happy path of one process.  While no other process has started and no
\* call of p has failed: if no marker existed when p's acquire began, then
\* once acquire has returned the marker exists and holds p's identifier in
\* decimal; and once release has returned the marker does not exist.
C1_HappyPath ==
    \A p \in Procs :
        Alone(p) /\ faults[p] = {} =>
            /\ pc[p] = "body" /\ seen[p] = <<>> =>
                   exists /\ content = IdText(p)
            /\ pc[p] \in {"done", "raised"} => ~exists /\ exits[p] = 1

C1_Witness ==
    /\ pc[2] = "done" /\ pc[1] = "idle"
    /\ faults[2] = {} /\ exits[2] = 1 /\ ~exists /\ elog[2] = 0

\* C2: fresh lock blocks.  A caller that began acquire when a marker existed
\* whose modification time equalled the clock has not left the wait loop
\* while that marker is still there, untouched, and the staleness timeout has
\* not elapsed since its modification time.
C2_FreshLockBlocks ==
    \A p \in Procs :
        /\ pc[p] = "open"
        /\ faults[p] = {}
        /\ seen[p] = <<0>>
        /\ ~disturbed[p]
        /\ exists
        => clock >= mtime + timeout[p]

\* C3: scoped lifecycle.  The body starts only from the end of acquire; every
\* exit from the body, normal or by an error, goes to release; release runs
\* exactly once, and when os.remove does not fail the marker is gone at its
\* end; an error of the body is still propagating after release, unchanged,
\* and without an error the with statement ends normally.
C3_ScopedLifecycle ==
    /\ [](\A p \in Procs :
            /\ exits[p] = (IF pc[p] \in {"done"} \/ (pc[p] = "raised" /\ exc[p] = "BodyError")
                           THEN 1 ELSE 0)
            /\ pc[p] = "done" => exc[p] = "none")
    /\ [][\A p \in Procs :
            /\ pc'[p] = "body" /\ pc[p] # "body" =>
                   pc[p] \in {"open", "write"} /\ exc'[p] = "none"
            /\ pc[p] = "body" /\ pc'[p] # "body" => pc'[p] = "remove"
            /\ pc[p] = "remove" /\ pc'[p] # "remove" =>
                   /\ exits'[p] = exits[p] + 1
                   /\ exc'[p] = exc[p]
                   /\ pc'[p] = (IF exc[p] = "BodyError" THEN "raised" ELSE "done")
                   /\ faults'[p] = faults[p] => ~exists'
         ]_vars

C3_Witness ==
    \E p \in Procs :
        /\ pc[p] = "raised" /\ exc[p] = "BodyError"
        /\ exits[p] = 1 /\ faults[p] = {} /\ ~exists /\ elog[p] = 0

\* Both processes are in their guarded bodies, each after an existence check
\* that found no marker and a creation that did not fail.
DoubleHold ==
    /\ \A p \in Procs : pc[p] = "body" /\ why[p] = "absent" /\ faults[p] = {}
    /\ \A p \in Procs : elog[p] = 0

\* C4: double hold.  Marker creation checks nothing: a process that has left
\* the wait loop and whose open does not fail creates or truncates the marker
\* whatever is at the path by then; so two processes that both found the
\* marker absent are both in their bodies, with the marker present.
C4_CreationUnconditional ==
    /\ [](DoubleHold => exists)
    /\ [][\A p \in Procs :
            pc[p] = "open" /\ Steps(p) =>
                /\ pc'[p] = "write"
                /\ exists' /\ content' = <<>> /\ mtime' = clock
                /\ elog'[p] = elog[p]
         ]_vars

C4_Witness == DoubleHold /\ exists

\* C5: staleness bounds the wait.  A poll whose clock sample is at least the
\* marker's modification time plus the timeout ends the wait, with no error
\* raised or logged; before that, a caller that has been waiting on a marker
\* nobody touched keeps waiting; and the caller that left on a stale marker
\* nobody else touched then writes its own identifier over it.
C5_StalenessBoundsWait ==
    [][\A p \in Procs :
         /\ pc[p] = "getmtime1" /\ exists /\ now[p] >= mtime + timeout[p]
               /\ Steps(p) =>
                /\ pc'[p] = "open"
                /\ exc'[p] = "none"
                /\ elog'[p] = elog[p] /\ dlog'[p] = dlog[p]
         /\ pc[p] \in {"getmtime1", "getmtime2"} /\ sleeps[p] > 0
               /\ ~disturbed[p] /\ exists /\ now[p] < mtime + timeout[p]
               /\ Steps(p) =>
                pc'[p] \in {"getmtime2", "sleep"}
         /\ pc[p] = "write" /\ why[p] = "stale" /\ ~disturbed[p]
               /\ Steps(p) =>
                /\ pc'[p] = "body"
                /\ exists' /\ content' = IdText(p) /\ mtime' = clock
      ]_vars

C5_Witness ==
    \E p \in Procs : \E q \in Others(p) :
        /\ pc[p] = "body" /\ why[p] = "stale" /\ sleeps[p] > 0
        /\ seen[p] # <<>> /\ seen[p][1] > 0
        /\ ~disturbed[p] /\ exists /\ content = IdText(p)
        /\ pc[q] = "body" /\ elog[q] = 0
        /\ faults[p] = {} /\ faults[q] = {}

\* p began its acquire on a marker at least timeout old.
StaleAtStart(p) == seen[p] # <<>> /\ seen[p][1] >= timeout[p]

\* C6: staleness expiry.  A caller that began acquire on a marker at least
\* timeout old never sleeps and logs no wait message, whatever other
\* processes do; and when nobody else touches the marker and no call fails,
\* it is in its body with the marker holding its identifier and a
\* modification time not before the start of the acquire.
C6_StalenessExpiry ==
    \A p \in Procs :
        StaleAtStart(p) =>
            /\ pc[p] # "sleep" /\ dlog[p] = 0 /\ sleeps[p] = 0
            /\ pc[p] = "body" /\ ~disturbed[p] /\ faults[p] = {} =>
                   /\ exists /\ content = IdText(p)
                   /\ now[p] <= mtime /\ mtime <= clock

C6_Witness ==
    \E p \in Procs :
        /\ StaleAtStart(p) /\ pc[p] = "body" /\ faults[p] = {}
        /\ exists /\ content = IdText(p) /\ mtime > 0

\* C7: no operation raises to its caller.  The only error that leaves a with
\* statement is the one its body raised, after release has run.
C7_NeverRaises ==
    \A p \in Procs :
        pc[p] = "raised" => exc[p] = "BodyError" /\ exits[p] = 1

\* C8: race tolerance.  A modification-time read of the wait loop that finds
\* the marker gone ends the loop in that step: nothing is raised, nothing is
\* logged, there is no sleep; the creation that follows puts the marker back.
C8_RaceTolerance ==
    [][\A p \in Procs :
         /\ pc[p] \in {"getmtime1", "getmtime2"} /\ ~exists /\ Steps(p) =>
                /\ pc'[p] = "open"
                /\ exc'[p] = "none"
                /\ dlog'[p] = dlog[p] /\ sleeps'[p] = sleeps[p]
                /\ elog'[p] = elog[p]
         /\ pc[p] = "open" /\ why[p] = "vanished" /\ Steps(p) =>
                pc'[p] = "write" /\ exists' /\ mtime' = clock
      ]_vars

C8_Witness ==
    \E p \in Procs :
        /\ why[p] = "vanished" /\ pc[p] = "write" /\ exists
        /\ exc[p] = "none" /\ faults[p] = {}

C10_CreationFailureSwallowed ==
    /\ [](\A p \in Procs :
            pc[p] = "body" =>
                /\ elog[p] = Cardinality(faults[p] \cap {"open", "write"})
                /\ elog[p] <= 1)
    /\ [][\A p \in Procs :
            pc[p] \in {"open", "write"} /\ faults'[p] # faults[p] =>
                /\ elog'[p] = elog[p] + 1
                /\ pc'[p] = "body"
                /\ exc'[p] = "none"
                /\ dlog'[p] = dlog[p]
         ]_vars

C10_Witness ==
    \E p \in Procs :
        /\ pc[p] = "body" /\ "open" \in faults[p]
        /\ elog[p] = 1 /\ ~exists

\* C11: idempotent release.  A release whose os.remove finds the marker
\* absent does not raise (the with statement ends as its body ended), logs
\* nothing, and leaves the marker absent with the file system as it was;
\* this holds of every such release, whatever came before it.
C11_IdempotentRelease ==
    [][\A p \in Procs :
         pc[p] = "remove" /\ ~exists /\ Steps(p) =>
             /\ exc'[p] = exc[p]
             /\ pc'[p] = (IF exc[p] = "BodyError" THEN "raised" ELSE "done")
             /\ elog' = elog /\ dlog' = dlog /\ lastlog' = lastlog
             /\ ~exists' /\ content' = content /\ mtime' = mtime]_vars

C11_Witness ==
    \E p \in Procs :
        /\ pc[p] = "done" /\ unlinked[p] = <<"missing">>
        /\ elog[p] = 0 /\ ~exists

\* C12: default configuration.  A guard constructed with only a path has a
\* staleness timeout of 10 seconds (100 poll intervals of 0.1 s) and the wait
\* message "Waiting for lock file to disappear...", and no step of any
\* acquire or release changes a guard's path, timeout or wait message.
C12_DefaultConfiguration ==
    /\ [](\A p \in Procs :
            args[p] = [timeout |-> <<>>, wait_msg |-> <<>>] =>
                /\ filename[p] = "my_lock_file.lock"
                /\ timeout[p] = 100
                /\ wait_msg[p] = "Waiting for lock file to disappear...")
    /\ [][/\ filename' = filename
          /\ timeout' = timeout
          /\ wait_msg' = wait_msg]_vars

C12_Witness ==
    \E p \in Procs :
        /\ args[p] = [timeout |-> <<>>, wait_msg |-> <<>>]
        /\ pc[p] = "done" /\ dlog[p] > 0 /\ unlinked[p] # <<>>
        /\ timeout[p] = 100
        /\ lastlog[p] = <<"d", "Waiting for lock file to disappear...">>

C14_WaiterProceeds ==
    /\ [][\A p \in Procs :
            /\ pc[p] \in {"exists", "getmtime1", "getmtime2"}
            /\ ~exists /\ Steps(p)
            => pc'[p] = "open" /\ dlog'[p] = dlog[p]]_vars
    /\ [](\A p \in Procs :
            /\ pc[p] = "body" /\ dlog[p] > 0 /\ why[p] = "absent"
            /\ faults[p] = {} /\ ~disturbed[p]
            => exists /\ content = IdText(p))

C14_Witness ==
    \E p \in Procs : \E q \in Others(p) :
        /\ pc[q] = "done" /\ unlinked[q] = <<"removed", IdText(q)>>
        /\ pc[p] = "body" /\ dlog[p] > 0 /\ why[p] = "absent"
        /\ exists /\ content = IdText(p)

\* C15: wait logging.  A step logs at debug severity exactly when it takes
\* the caller from the loop condition into the sleep, it logs the guard's
\* wait message once, and nothing else of acquire logs at that severity; so
\* the debug messages of an acquire number its finished sleeps plus the one
\* in progress, they equal its sleeps once it has returned, and an acquire
\* that never slept has logged none.
C15_WaitLogging ==
    /\ [][\A p \in Procs :
            /\ (pc'[p] = "sleep" /\ pc[p] # "sleep") =>
                   /\ pc[p] = "getmtime2"
                   /\ dlog'[p] = dlog[p] + 1
                   /\ lastlog'[p] = <<"d", wait_msg[p]>>
            /\ dlog'[p] # dlog[p] => pc'[p] = "sleep" /\ pc[p] # "sleep"]_vars
    /\ [](\A p \in Procs :
            /\ dlog[p] = sleeps[p] + (IF pc[p] = "sleep" THEN 1 ELSE 0)
            /\ (pc[p] = "body" /\ sleeps[p] = 0) => dlog[p] = 0)

C15_Witness ==
    \E p \in Procs :
        /\ pc[p] = "body" /\ dlog[p] = 2 /\ sleeps[p] = 2
        /\ lastlog[p] = <<"d", wait_msg[p]>>
        /\ \E q \in Others(p) : pc[q] = "body" /\ dlog[q] = 0

C18_ReleaseIgnoresOwnership ==
    /\ [][\A p \in Procs :
            pc[p] = "remove" /\ exists /\ Steps(p) =>
                /\ ~exists'
                /\ unlinked'[p] = <<"removed", content>>
                /\ elog' = elog
                /\ \A q \in Others(p) : pc'[q] = pc[q]]_vars
    /\ [][\A q \in Procs :
            unlinked'[q] = <<"missing">> /\ unlinked[q] = <<>> =>
                /\ pc[q] = "remove" /\ ~exists
                /\ elog' = elog
                /\ pc'[q] = (IF exc[q] = "none" THEN "done" ELSE "raised")]_vars

\* A has removed the marker B wrote over A's, with B in its scope.
C18_WitnessInScope ==
    \E a \in Procs : \E b \in Others(a) :
        /\ unlinked[a] = <<"removed", IdText(b)>>
        /\ pc[b] = "body" /\ ~exists
        /\ faults[a] = {} /\ faults[b] = {}

\* Afterwards B's own release has found nothing and ended silently.
C18_Witness ==
    \E a \in Procs : \E b \in Others(a) :
        /\ unlinked[a] = <<"removed", IdText(b)>>
        /\ unlinked[b] = <<"missing">>
        /\ pc[a] = "done" /\ pc[b] = "done"
        /\ elog[a] = 0 /\ elog[b] = 0
        /\ faults[a] = {} /\ faults[b] = {}

\* C20: the wait loop is read-only.  No step that a process takes from its
\* first existence check to the end of a sleep, whether its call fails or
\* not, changes the marker's existence, content or modification time; every
\* step that changes one of them is the open or the write of a creation or
\* the remove of a release.
C20_WaitLoopReadOnly ==
    [][/\ \A p \in Procs :
            /\ pc[p] \in {"idle", "exists", "getmtime1", "getmtime2", "sleep"}
            /\ pc'[p] # pc[p]
            => exists' = exists /\ content' = content /\ mtime' = mtime
       /\ (exists' # exists \/ content' # content \/ mtime' # mtime) =>
            \E p \in Procs :
                pc[p] \in {"open", "write", "remove"} /\ pc'[p] # pc[p]]_vars

\* After two full iterations the marker the caller waits on is as it was
\* found: the foreign identifier, written at time 0.
C20_Witness ==
    \E p \in Procs :
        /\ pc[p] = "exists" /\ sleeps[p] = 2 /\ dlog[p] = 2
        /\ exists /\ content = <<3, 0, 5>> /\ mtime = 0
        /\ \A q \in Others(p) : pc[q] = "idle"

\* C19: acquire is not re-entrant.  For a with statement nested in the body
\* of another of the same process: its polls decide on the marker's existence
\* and age alone, so on the marker that holds the process's own identifier
\* it goes to sleep while 0 < age < timeout and leaves the loop only
\* otherwise; and its release removes the marker while the outer body is
\* still running.
C19_NotReentrant ==
    /\ [](\A p \in Procs :
            (outer[p] # 0 /\ pc[p] \notin {"idle", "done", "raised"}) =>
                pc[outer[p]] = "body")
    /\ [][\A p \in Procs :
            /\ outer[p] # 0 /\ Steps(p)
            /\ pc[p] \in {"exists", "getmtime1", "getmtime2"}
            /\ exists /\ content = IdText(outer[p])
            => LET age == now[p] - mtime
                   blocked == age > 0 /\ age < timeout[p]
               IN  /\ pc'[p] = "sleep" => blocked
                   /\ pc'[p] = "open" => ~blocked
                   /\ blocked => pc'[p] \in {"getmtime1", "getmtime2", "sleep"}
                   /\ (blocked /\ pc[p] = "getmtime2") => pc'[p] = "sleep"]_vars
    /\ [][\A p \in Procs :
            (outer[p] # 0 /\ pc[p] = "remove" /\ exists /\ Steps(p)) =>
                ~exists' /\ pc'[outer[p]] = "body"]_vars

\* The inner acquire slept on the process's own marker until it was stale,
\* wrote the same identifier again, and the inner release has removed the
\* marker under the outer body.
C19_Witness ==
    \E p \in Procs :
        /\ outer[p] # 0 /\ pc[outer[p]] = "body" /\ why[outer[p]] = "absent"
        /\ pc[p] = "done" /\ dlog[p] = timeout[p] - 1
        /\ unlinked[p] = <<"removed", IdText(outer[p])>>
        /\ ~exists /\ \A q \in Procs : faults[q] = {}

Acquiring(p) ==
    pc[p] \in {"exists", "getmtime1", "getmtime2", "sleep", "open", "write"}

Returned(p) == pc[p] \in {"body", "raised"}

====
